---- MODULE Spec2Model ----
(***************************************************************************)
(* The admission-control queue of the ticketing backend: POST /queue/enter,*)
(* GET /queue/status, POST /reservation/start (backend/src/routes.js) and  *)
(* the batch admitter admitBatchOnce (backend/src/server.js), all sharing  *)
(* one Redis store.  Every `await redis.*` of a handler is one atomic      *)
(* step; the synchronous code that follows an await up to the next one     *)
(* belongs to the same step.  A random identifier ("q_" + randomBytes) is  *)
(* an opaque value: a queue token is an integer whose order stands for the *)
(* lexicographic order of the hex strings, which Redis uses to break ties  *)
(* between equal scores.                                                   *)
(***************************************************************************)
EXTENDS Integers, Sequences, FiniteSets, TLC

\* ------------------------------------------------------------------ bounds
MaxTokens == 2          \* queue tokens that can ever be issued
MaxBatchSize == 2       \* largest QUEUE_BATCH_SIZE the service is started with
MaxEtaBatch == 13       \* largest QUEUE_BATCH_SIZE an estimate is computed for
MaxEtaPosition == 66    \* largest position an estimate is computed for

\* -------------------------------------------------------- program constants
BATCH_INTERVAL_SEC == 3     \* QUEUE_BATCH_INTERVAL_SEC (routes.js 199)
RESERVATION_TTL_SEC == 120  \* RESERVATION_TTL_SEC (routes.js 5)

Tokens == 1..MaxTokens
MaxRounds == MaxTokens  \* sweeps counted after the enter calls
EventIds == {"E1", "E2"}
UserIds == {"u1", "u2"}
Procs == {1, 2}         \* service instances sharing the store
Redeemers == {1, 2}     \* concurrent POST /reservation/start calls

\* ------------------------------------------------------------------- state
VARIABLES
    BATCH_SIZE,     \* QUEUE_BATCH_SIZE (server.js 60, routes.js 198), fixed at start
    now,            \* the value Date.now() returned last, in ms
    meta,           \* queue:token:{queueToken} -> {userId, eventId, joinedAt}
    state,          \* queue:state:{queueToken} -> "WAITING" | "ADMITTED"
    queue,          \* queue:{eventId}: sorted set of [score, value]
    events,         \* queue:events: set of event ids
    admissionOf,    \* queue:admission:{queueToken} -> admissionToken
    admission,      \* admission:{admissionToken} -> {queueToken, userId, eventId}
    reservation,    \* reservation:{reservationId} -> session
    en,             \* one POST /queue/enter call per queue token
    rejected,       \* history: the last 400 answer of POST /queue/enter
    st,             \* the GET /queue/status call in progress
    last,           \* history: the last status response per token
    shown,          \* history: tokens a status response has shown ADMITTED
    rd,             \* the POST /reservation/start calls in progress
    sessions,       \* history: reservation ids drawn, by admission token
    lapsed,         \* history: admission tokens whose payload key expired
    running,        \* server.js `let running`, one per service instance
    sw,             \* the admitBatchOnce execution of each service instance
    active,         \* history: executions of the sweep body in progress
    batch,          \* history: tokens popped / admitted for the event in hand
    minted,         \* history: admission tokens minted, in order, by queue token
    admits,         \* history: times state was set to ADMITTED, per token
    discarded,      \* history: tokens an admitter popped and found stale
    scenario,       \* history: "enter" while only enter calls have run,
                    \* "sweep" during a first sweep started after them,
                    \* "swept" once it has ended, "off" after anything else
    rounds          \* history: the sweeps that have run to their end, while
                    \* nothing but sweeps has run since the enter calls
                    \* responded (counted up to MaxRounds); -1 otherwise

store == <<meta, state, queue, events, admissionOf, admission, reservation>>
vars == <<BATCH_SIZE, now, meta, state, queue, events, admissionOf, admission,
          reservation, en, rejected, st, last, shown, rd, sessions, lapsed, running, sw, active,
          batch,
          minted, admits, discarded, scenario, rounds>>

\* ------------------------------------------------------------ Redis helpers
\* A string key space is a partial function: a key is present iff it is in
\* the DOMAIN; GET of a missing key is null.
Has(f, k) == k \in DOMAIN f
Set(f, k, v) == [x \in DOMAIN f \cup {k} |-> IF x = k THEN v ELSE f[x]]
Del(f, k) == [x \in DOMAIN f \ {k} |-> f[x]]
Empty == [x \in {} |-> 0]

\* Sorted set order: by score, ties by the member's lexicographic order.
ZLess(a, b) == a.score < b.score \/ (a.score = b.score /\ a.value < b.value)
\* An insertion that leaves the new member alone in the set.
ZAddAlone(q, score, value) == {[score |-> score, value |-> value]}

\* ZADD: the member is added, or its score replaced.
ZAdd(q, score, value) ==
    {m \in q : m.value # value} \cup {[score |-> score, value |-> value]}
ZCard(q) == Cardinality(q)
\* ZPOPMIN: the member the pop returns ({} when the set is empty).
ZMin(q) == {m \in q : \A o \in q : o = m \/ ZLess(m, o)}
\* ZRANK: {} is null, {r} is the 0-based rank.
ZRank(q, value) ==
    {Cardinality({o \in q : ZLess(o, m)}) : m \in {x \in q : x.value = value}}

\* An insertion that leaves the new member alone in the set.
SAddAlone(s, member) == {member}

\* SADD
SAdd(s, member) == s \cup {member}

\* -------------------------------------------------------------------- Init
IdleEnter ==
    [pc |-> "idle", userId |-> "", eventId |-> "", now |-> 0,
     position |-> {}, before |-> {}, first |-> FALSE]
NoError == [code |-> 0, error |-> ""]
IdleSweep ==
    [pc |-> "idle", eventIds |-> {}, eventId |-> "", i |-> 0,
     queueToken |-> 0, userId |-> "", admissionToken |-> 0]
NoBatch == [popped |-> {}, admitted |-> {}]
IdleStatus ==
    [pc |-> "idle", token |-> 0, eventId |-> "", status |-> "",
     position |-> {}, estimatedWaitSec |-> {}, counted |-> FALSE]
NoResponse ==
    [code |-> 0, status |-> "", position |-> {}, estimatedWaitSec |-> {},
     admissionToken |-> {}]
IdleRedeem ==
    [pc |-> "idle", admissionToken |-> 0, queueToken |-> 0, userId |-> "",
     eventId |-> "", reservationId |-> 0, expiresInSec |-> 0]

\* An empty store, no call in progress, the admitter idle.
Start ==
    /\ now = 1
    /\ meta = Empty
    /\ state = Empty
    /\ queue = [e \in EventIds |-> {}]
    /\ events = {}
    /\ admissionOf = Empty
    /\ admission = Empty
    /\ reservation = Empty
    /\ en = [t \in Tokens |-> IdleEnter]
    /\ rejected = NoError
    /\ st = IdleStatus
    /\ last = [t \in Tokens |-> NoResponse]
    /\ shown = {}
    /\ rd = [r \in Redeemers |-> IdleRedeem]
    /\ sessions = << >>
    /\ lapsed = {}
    /\ running = [p \in Procs |-> FALSE]
    /\ sw = [p \in Procs |-> IdleSweep]
    /\ active = [p \in Procs |-> 0]
    /\ batch = [p \in Procs |-> [e \in EventIds |-> NoBatch]]
    /\ minted = << >>
    /\ admits = [t \in Tokens |-> 0]
    /\ discarded = {}
    /\ scenario = "enter"
    /\ rounds = 0

Init ==
    /\ BATCH_SIZE \in 1..MaxBatchSize
    /\ Start

\* ------------------------------------------------------- POST /queue/enter
enterVars == <<en, rejected>>
sweepVars == <<running, sw, active, batch, minted, admits, discarded>>
statusVars == <<st, last, shown>>
redeemVars == <<rd, sessions, lapsed>>

\* History of the status responses.  `last` holds, per token, the last 200
\* response of a call that started after the token's enter call had responded
\* (`counted`), until a step of a sweep or a key expiring ends the span over
\* which consecutive responses are compared; a 404 is held likewise.
Disturb ==
    /\ last' = [t \in Tokens |-> NoResponse]
    /\ st' = IF st.pc = "idle" THEN st ELSE [st EXCEPT !.counted = FALSE]
    /\ UNCHANGED shown

\* A field of the request body that is not there.
Absent == ""

\* A validation that looks at eventId alone.
MissingEvent(userId, eventId) == eventId = Absent

\* routes.js 77-78: `if (!userId)`, `if (!eventId)`.
Missing(userId, eventId) == userId = Absent \/ eventId = Absent

\* routes.js 77-78: the 400 answers; nothing is drawn, read or written.
EnterReject(userId, eventId) ==
    /\ userId = Absent \/ eventId = Absent
    /\ rejected' = [code |-> 400,
                    error |-> IF userId = Absent THEN "userId is required"
                              ELSE "eventId is required"]
    /\ UNCHANGED <<now, store, en, sweepVars, statusVars, redeemVars>>

\* An enter call that inserts into the ledger first.
LedgerFirst == <<"zAdd", "sAdd", "setMeta", "setState", "zRank", "done">>

\* routes.js 93-117: the commands of an enter call in the order it awaits
\* them, then the response.
EnterOrder == <<"setMeta", "setState", "zAdd", "sAdd", "zRank", "done">>
Following(pc) ==
    EnterOrder[(CHOOSE i \in 1..(Len(EnterOrder) - 1) : EnterOrder[i] = pc) + 1]

\* routes.js 76-90: validation, a fresh random queueToken, now = Date.now().
\* Date.now() has millisecond resolution: it returns the value it returned
\* last (elapsed = 0) or a later one (elapsed = 1).  History: `before` holds
\* the calls that had responded when this one started, `first` tells whether
\* the ledger of the event was empty then.
EnterStart(t, userId, eventId, elapsed) ==
    /\ ~Missing(userId, eventId)
    /\ en[t].pc = "idle"
    /\ now' = now + elapsed
    /\ en' = [en EXCEPT ![t] =
                [pc |-> EnterOrder[1], userId |-> userId, eventId |-> eventId,
                 now |-> now', position |-> {},
                 before |-> {a \in Tokens : en[a].pc = "done"},
                 first |-> (queue[eventId] = {})]]
    /\ UNCHANGED <<store, rejected, sweepVars,
                   statusVars, redeemVars>>

\* routes.js 93-97
EnterSetMeta(t) ==
    /\ en[t].pc = "setMeta"
    /\ meta' = Set(meta, t, [userId |-> en[t].userId, eventId |-> en[t].eventId,
                             joinedAt |-> en[t].now])
    /\ en' = [en EXCEPT ![t].pc = Following("setMeta")]
    /\ UNCHANGED <<now, state, queue, events, admissionOf, admission,
                   reservation, rejected, sweepVars,
                   statusVars, redeemVars>>

\* routes.js 100
EnterSetState(t) ==
    /\ en[t].pc = "setState"
    /\ state' = Set(state, t, "WAITING")
    /\ en' = [en EXCEPT ![t].pc = Following("setState")]
    /\ UNCHANGED <<now, meta, queue, events, admissionOf, admission,
                   reservation, rejected, sweepVars,
                   statusVars, redeemVars>>

\* routes.js 103: the score is the `now` read at the start of the call.
EnterZAdd(t) ==
    /\ en[t].pc = "zAdd"
    /\ queue' = [queue EXCEPT ![en[t].eventId] = ZAdd(@, en[t].now, t)]
    /\ en' = [en EXCEPT ![t].pc = Following("zAdd")]
    /\ UNCHANGED <<now, meta, state, events, admissionOf, admission,
                   reservation, rejected, sweepVars,
                   statusVars, redeemVars>>

\* routes.js 106
EnterSAdd(t) ==
    /\ en[t].pc = "sAdd"
    /\ events' = SAdd(events, en[t].eventId)
    /\ en' = [en EXCEPT ![t].pc = Following("sAdd")]
    /\ UNCHANGED <<now, meta, state, queue, admissionOf, admission,
                   reservation, rejected, sweepVars,
                   statusVars, redeemVars>>

\* routes.js 109-117: position = rank + 1 (null when the rank is null), and
\* the response {queueToken, status: "WAITING", position}.
EnterZRank(t) ==
    /\ en[t].pc = "zRank"
    /\ en' = [en EXCEPT ![t].pc = Following("zRank"),
                        ![t].position =
                            {r + 1 : r \in ZRank(queue[en[t].eventId], t)}]
    /\ UNCHANGED <<now, store, rejected, sweepVars,
                   statusVars, redeemVars>>

\* routes.js 74-90: the start of a call, body fields present or not.
EnterCall(t, userId, eventId, elapsed) ==
    IF Missing(userId, eventId)
    THEN EnterReject(userId, eventId)
    ELSE EnterStart(t, userId, eventId, elapsed)

EnterSteps(t) ==
    \/ EnterZRank(t)
    \/ EnterSetMeta(t)
    \/ EnterSetState(t)
    \/ EnterZAdd(t)
    \/ EnterSAdd(t)

\* Enter calls keep the run within the scenario only before the first sweep.
EnterKeeps ==
    /\ scenario' = IF scenario = "enter" THEN "enter" ELSE "off"
    /\ rounds' = IF scenario = "enter" THEN rounds ELSE -1

NoEnterInFlight == \A t \in Tokens : en[t].pc \in {"idle", "done"}

\* ----------------------------------------------------------- TTL expiry
\* queue:token:{t} carries EX 3600 (routes.js 96); the sorted-set member
\* carries none, so the metadata can be gone while the member remains.
ExpireMeta(t) ==
    /\ Has(meta, t)
    /\ meta' = Del(meta, t)
    /\ Disturb
    /\ scenario' = "off"
    /\ rounds' = -1
    /\ UNCHANGED <<now, state, queue, events, admissionOf, admission,
                   reservation, enterVars, sweepVars, redeemVars>>

\* queue:state:{t} carries EX 3600 from the enter call (routes.js 100) and
\* EX ADMISSION_TTL_SEC, 120 by default, from the admitter (server.js 116),
\* while the metadata keeps the 3600 of the enter call: the key of a WAITING
\* token outlives the metadata, set just before it; the key of an ADMITTED
\* token need not.
ExpireState(t) ==
    /\ Has(state, t)
    /\ state[t] = "ADMITTED" \/ ~Has(meta, t)
    /\ state' = Del(state, t)
    /\ Disturb
    /\ scenario' = "off"
    /\ rounds' = -1
    /\ UNCHANGED <<now, meta, queue, events, admissionOf, admission,
                   reservation, enterVars, sweepVars, redeemVars>>

\* admission:{admissionToken} carries EX ADMISSION_TTL_SEC (server.js 122).
ExpireAdmission(a) ==
    /\ Has(admission, a)
    /\ admission' = Del(admission, a)
    /\ lapsed' = lapsed \cup {a}
    /\ scenario' = "off"
    /\ rounds' = -1
    /\ UNCHANGED <<now, meta, state, queue, events, admissionOf, reservation,
                   enterVars, rd, sessions, sweepVars, statusVars>>

\* ------------------------------------------------------ GET /queue/status
\* A JavaScript Number is an IEEE 754 double: a significand of 53 bits
\* (most significant first, the first one set unless the number is zero)
\* and an exponent, standing for m * 2^e.
Precision == 53

RECURSIVE Bits(_)
Bits(n) == IF n = 0 THEN << >> ELSE Append(Bits(n \div 2), n % 2)

RECURSIVE ToInt(_)
ToInt(s) ==
    IF s = << >> THEN 0
    ELSE 2 * ToInt(SubSeq(s, 1, Len(s) - 1)) + s[Len(s)]

Zeros(n) == [i \in 1..n |-> 0]

\* The Number of a small non-negative integer (exact).
FromInt(n) ==
    [m |-> Bits(n) \o Zeros(Precision - Len(Bits(n))),
     e |-> Len(Bits(n)) - Precision]

\* The long division works on the significands as numbers of LimbCount digits
\* in base LimbBase (2^15), most significant first.
LimbBase == 32768
LimbBits == 15
LimbCount == 4

ToLimbs(bits) ==
    [i \in 1..LimbCount |->
        ToInt(SubSeq(Zeros(LimbBits * LimbCount - Len(bits)) \o bits,
                     LimbBits * (i - 1) + 1, LimbBits * i))]

\* a >= b for digit strings of one length.
GE(a, b) ==
    \/ a = b
    \/ \E i \in 1..Len(a) : a[i] > b[i] /\ \A j \in 1..(i - 1) : a[j] = b[j]

\* Digits 1..i of a - b - borrow, for digit strings of one length.
RECURSIVE SubLimbs(_, _, _, _)
SubLimbs(a, b, i, borrow) ==
    IF i = 0 THEN << >>
    ELSE Append(SubLimbs(a, b, i - 1,
                         IF a[i] - b[i] - borrow < 0 THEN 1 ELSE 0),
                (a[i] - b[i] - borrow + LimbBase) % LimbBase)

\* 2 * r, for r below half the range.
Double(r) ==
    [i \in 1..LimbCount |->
        ((2 * r[i]) % LimbBase)
          + (IF i < LimbCount /\ r[i + 1] >= LimbBase \div 2 THEN 1 ELSE 0)]

\* s + 1, for a bit string that has a 0.
Increment(s) ==
    [i \in 1..Len(s) |->
        IF \A j \in i..Len(s) : s[j] = 1 THEN 0
        ELSE IF \A j \in (i + 1)..Len(s) : s[j] = 1 THEN 1
        ELSE s[i]]

\* Long division: the next n bits of r / d (r < 2d), then one more bit
\* telling whether a remainder is left.
RECURSIVE QuotBits(_, _, _)
QuotBits(r, d, n) ==
    IF n = 0 THEN << IF \E i \in 1..LimbCount : r[i] # 0 THEN 1 ELSE 0 >>
    ELSE IF GE(r, d)
         THEN << 1 >> \o QuotBits(Double(SubLimbs(r, d, LimbCount, 0)), d, n - 1)
         ELSE << 0 >> \o QuotBits(Double(r), d, n - 1)

\* x / y in double precision, y > 0: the quotient of the significands to 53
\* significant bits, rounded to nearest, ties to even.
FDiv(x, y) ==
    IF x.m[1] = 0 THEN x
    ELSE LET q == QuotBits(ToLimbs(x.m), ToLimbs(y.m), Precision + 2)
             k == IF q[1] = 1 THEN 0 ELSE 1
             sig == SubSeq(q, k + 1, k + Precision)
             guard == q[k + Precision + 1]
             sticky == \E i \in (k + Precision + 2)..Len(q) : q[i] = 1
             up == guard = 1 /\ (sticky \/ sig[Precision] = 1)
             sum == IF up THEN Increment(<< 0 >> \o sig) ELSE << 0 >> \o sig
         IN IF sum[1] = 1
            THEN [m |-> SubSeq(sum, 1, Precision), e |-> x.e - y.e - k - 51]
            ELSE [m |-> SubSeq(sum, 2, Precision + 1),
                  e |-> x.e - y.e - k - 52]

\* Math.ceil of a Number below 2^31, as an integer.
MathCeil(x) ==
    LET n == IF Precision + x.e < 0 THEN 0 ELSE Precision + x.e
    IN ToInt(SubSeq(x.m, 1, n))
         + (IF \E i \in (n + 1)..Precision : x.m[i] = 1 THEN 1 ELSE 0)

Max(a, b) == IF a >= b THEN a ELSE b

\* routes.js 198-205: perSec = BATCH_SIZE / BATCH_INTERVAL_SEC and
\* Math.ceil(ahead / perSec), for every batch size and every number ahead
\* that an estimate is computed for.
PerSec == [b \in 1..MaxEtaBatch |-> FDiv(FromInt(b), FromInt(BATCH_INTERVAL_SEC))]
CeilAheadPerSec ==
    [b \in 1..MaxEtaBatch |->
        [ahead \in 0..(MaxEtaPosition - 1) |->
            MathCeil(FDiv(FromInt(ahead), PerSec[b]))]]

\* An estimate from the place within the batch in the place of the number
\* ahead.
EstimatedWaitInBatch(position, status) ==
    IF status = "WAITING"
    THEN {CeilAheadPerSec[BATCH_SIZE][Max(pos - 1, 0) % BATCH_SIZE] :
              pos \in position}
    ELSE {}

\* routes.js 202-206: null ({}) unless the position is known and the status
\* is WAITING.
EstimatedWaitSec(position, status) ==
    IF status = "WAITING"
    THEN {CeilAheadPerSec[BATCH_SIZE][Max(pos - 1, 0)] : pos \in position}
    ELSE {}

Respond(t, response) ==
    /\ last' = [last EXCEPT ![t] = IF st.counted THEN response ELSE NoResponse]
    /\ shown' = IF response.status = "ADMITTED" THEN shown \cup {t} ELSE shown
    /\ st' = IdleStatus

\* A handler that never answers 404.
NotFoundNever(t) == FALSE

\* routes.js 179: `if (!metaJson)`
NotFound(t) == ~Has(meta, t)

\* routes.js 172-182: GET of the metadata; absent, 404 token_not_found.
\* (Destructuring the parse of a null metaJson throws: the 500 of line 232.)
StatusGetMeta(t) ==
    /\ st.pc = "idle"
    /\ IF NotFound(t)
       THEN /\ last' = [last EXCEPT ![t] = [NoResponse EXCEPT !.code = 404]]
            /\ st' = IdleStatus
       ELSE IF ~Has(meta, t)
       THEN /\ last' = [last EXCEPT ![t] = [NoResponse EXCEPT !.code = 500]]
            /\ st' = IdleStatus
       ELSE /\ st' = [IdleStatus EXCEPT !.pc = "getState", !.token = t,
                                        !.eventId = meta[t].eventId,
                                        !.counted = (en[t].pc = "done")]
            /\ UNCHANGED last
    /\ UNCHANGED <<now, store, enterVars, shown, sweepVars, redeemVars>>

\* routes.js 184: a missing state key reads as WAITING.
StatusGetState ==
    /\ st.pc = "getState"
    /\ st' = [st EXCEPT !.pc = "ttl",
                        !.status = IF Has(state, st.token) THEN state[st.token]
                                   ELSE "WAITING"]
    /\ UNCHANGED <<now, store, enterVars, last, shown, sweepVars, redeemVars>>

\* routes.js 187-188: TTL of the metadata key, for expiresInSec.
StatusTtl ==
    /\ st.pc = "ttl"
    /\ st' = [st EXCEPT !.pc = "zRank"]
    /\ UNCHANGED <<now, store, enterVars, last, shown, sweepVars, redeemVars>>

\* routes.js 191-214 (and 221-229 when the status is not ADMITTED)
StatusZRank ==
    /\ st.pc = "zRank"
    /\ LET position == {r + 1 : r \in ZRank(queue[st.eventId], st.token)}
           eta == EstimatedWaitSec(position, st.status)
       IN IF st.status = "ADMITTED"
          THEN /\ st' = [st EXCEPT !.pc = "getAdmission",
                                   !.position = position,
                                   !.estimatedWaitSec = eta]
               /\ UNCHANGED <<last, shown>>
          ELSE Respond(st.token,
                       [code |-> 200, status |-> st.status,
                        position |-> position, estimatedWaitSec |-> eta,
                        admissionToken |-> {}])
    /\ UNCHANGED <<now, store, enterVars, sweepVars, redeemVars>>

\* routes.js 215-229
StatusGetAdmission ==
    /\ st.pc = "getAdmission"
    /\ Respond(st.token,
               [code |-> 200, status |-> st.status, position |-> st.position,
                estimatedWaitSec |-> st.estimatedWaitSec,
                admissionToken |-> IF Has(admissionOf, st.token)
                                  THEN {admissionOf[st.token]} ELSE {}])
    /\ UNCHANGED <<now, store, enterVars, sweepVars, redeemVars>>

\* routes.js 195-206 alone: the estimate for a position and a status given
\* as inputs (a null position is {}).
StatusEstimate(position, status) ==
    /\ st.pc = "idle"
    /\ st' = [IdleStatus EXCEPT !.status = status, !.position = position,
                                !.estimatedWaitSec =
                                    EstimatedWaitSec(position, status)]
    /\ UNCHANGED <<now, store, enterVars, last, shown, sweepVars, redeemVars>>

StatusNext ==
    \/ \E t \in Tokens : StatusGetMeta(t)
    \/ StatusGetState
    \/ StatusTtl
    \/ StatusZRank
    \/ StatusGetAdmission

\* ------------------------------------------------ POST /reservation/start
\* A handler that takes every payload for present.
InvalidNever(admissionToken) == FALSE

\* routes.js 288: `if (!payloadJson)`
Invalid(admissionToken) == ~Has(admission, admissionToken)

\* routes.js 281-297: GET of the admission payload; absent, 401; present,
\* a fresh random reservationId.
\* (Destructuring the parse of a null payloadJson throws: the 500 of line
\* 322.)
RedeemGet(r, admissionToken) ==
    /\ rd[r].pc \in {"idle", "200", "401", "500"}
    /\ IF Invalid(admissionToken)
       THEN /\ rd' = [rd EXCEPT ![r] =
                        [IdleRedeem EXCEPT !.pc = "401",
                                           !.admissionToken = admissionToken]]
            /\ UNCHANGED sessions
       ELSE IF ~Has(admission, admissionToken)
       THEN /\ rd' = [rd EXCEPT ![r] =
                        [IdleRedeem EXCEPT !.pc = "500",
                                           !.admissionToken = admissionToken]]
            /\ UNCHANGED sessions
       ELSE /\ rd' = [rd EXCEPT ![r] =
                        [pc |-> "setReservation",
                         admissionToken |-> admissionToken,
                         queueToken |-> admission[admissionToken].queueToken,
                         userId |-> admission[admissionToken].userId,
                         eventId |-> admission[admissionToken].eventId,
                         reservationId |-> Len(sessions) + 1,
                         expiresInSec |-> 0]]
            /\ sessions' = Append(sessions, admissionToken)
    /\ UNCHANGED <<now, store, enterVars, lapsed, sweepVars, statusVars>>

\* routes.js 299-310
RedeemSetReservation(r) ==
    /\ rd[r].pc = "setReservation"
    /\ reservation' = Set(reservation, rd[r].reservationId,
                          [admissionToken |-> rd[r].admissionToken,
                           queueToken |-> rd[r].queueToken,
                           userId |-> rd[r].userId,
                           eventId |-> rd[r].eventId])
    /\ rd' = [rd EXCEPT ![r].pc = "del"]
    /\ UNCHANGED <<now, meta, state, queue, events, admissionOf, admission,
                   enterVars, sessions, lapsed, sweepVars, statusVars>>

\* routes.js 312-319: DEL of the admission key, then the 200 response
\* {reservationId, expiresInSec: RESERVATION_TTL_SEC, userId, eventId}.
RedeemDel(r) ==
    /\ rd[r].pc = "del"
    /\ admission' = Del(admission, rd[r].admissionToken)
    /\ rd' = [rd EXCEPT ![r].pc = "200",
                        ![r].expiresInSec = RESERVATION_TTL_SEC]
    /\ UNCHANGED <<now, meta, state, queue, events, admissionOf, reservation,
                   enterVars, sessions, lapsed, sweepVars, statusVars>>

RedeemNext ==
    \E r \in Redeemers :
        \/ \E a \in 1..(Len(minted) + 1) : RedeemGet(r, a)
        \/ RedeemSetReservation(r)
        \/ RedeemDel(r)

\* ------------------------------------------------ admitBatchOnce (server.js)
reqVars == <<now, enterVars, rd, sessions, lapsed>>

\* A tick that never looks at the flag.
SkipsNever(p) == FALSE

\* server.js 78: `if (running) return;`
Skips(p) == running[p]

\* A loop that runs once more.
BatchContinuesOneMore(i) == i <= BATCH_SIZE

\* server.js 91: the loop condition `i < BATCH_SIZE`.
BatchContinues(i) == i < BATCH_SIZE

\* A read of the lowest member that leaves it in the set (ZRANGE 0 0).
ZPeekRest(q) == q

\* A pop that takes the highest member out of the set.
ZPopMaxRest(q) == {m \in q : \E o \in q : ZLess(m, o)}

\* server.js 92: what ZPOPMIN leaves in the sorted set.
ZPopMinRest(q) == q \ ZMin(q)

\* A `return` in the place of the `continue` and of the end of the body.
LoopEventReturns(s) == IdleSweep

\* server.js 85, 127: the next event of `for (const eventId of eventIds)`,
\* or the end of the loop and the `finally` of line 131.
LoopEvent(s) ==
    IF s.eventIds \ {s.eventId} = {}
    THEN IdleSweep
    ELSE [IdleSweep EXCEPT !.pc = "zCard", !.eventIds = s.eventIds \ {s.eventId}]

\* server.js 91, 108, 126: `continue` or the end of the body: i++, then the
\* loop condition.
LoopToken(s) ==
    IF BatchContinues(s.i + 1)
    THEN [s EXCEPT !.pc = "zPopMin", !.i = s.i + 1, !.queueToken = 0,
                   !.userId = "", !.admissionToken = 0]
    ELSE LoopEvent(s)

\* `break` in the place of `continue`.
AfterDiscardBreaks(s) == LoopEvent(s)

\* server.js 108: `continue` after a stale token.
AfterDiscard(s) == LoopToken(s)

\* An execution that leaves the flag as it is.
ReleasedNever(next) == FALSE

\* server.js 130-132: `finally { running = false; }`, reached by the end of
\* the loops, by the `return` of line 83 and by the `catch` of line 128.
Released(next) == next.pc = "idle"

\* The sweep record after a step, with the flag of line 131 and the history
\* of the event in hand.
Goes(p, next) ==
    /\ sw' = [sw EXCEPT ![p] = next]
    /\ running' = [running EXCEPT ![p] = ~Released(next)]
    /\ active' = [active EXCEPT ![p] = IF next.pc = "idle" THEN @ - 1 ELSE @]
    /\ Disturb
    /\ scenario' = IF scenario # "sweep" THEN "off"
                   ELSE IF next.pc = "idle" THEN "swept" ELSE "sweep"
    /\ rounds' = IF rounds = -1 \/ next.pc # "idle" \/ rounds = MaxRounds
                 THEN rounds ELSE rounds + 1

\* server.js 77-82: a timer tick (setInterval, line 148).  A tick that finds
\* `running` set returns at once; otherwise it sets the flag and sends
\* SMEMBERS.
Tick(p) ==
    IF Skips(p)
    THEN UNCHANGED vars
    ELSE /\ running' = [running EXCEPT ![p] = TRUE]
         /\ active' = [active EXCEPT ![p] = @ + 1]
         /\ sw' = [sw EXCEPT ![p] = [IdleSweep EXCEPT !.pc = "sMembers"]]
         /\ batch' = [batch EXCEPT ![p] = [e \in EventIds |-> NoBatch]]
         /\ Disturb
         /\ scenario' = IF scenario = "enter" /\ NoEnterInFlight THEN "sweep"
                        ELSE "off"
         /\ rounds' = IF NoEnterInFlight THEN rounds ELSE -1
         /\ UNCHANGED <<store, reqVars, minted, admits, discarded>>

\* server.js 82-85
AdmitSMembers(p) ==
    /\ sw[p].pc = "sMembers"
    /\ Goes(p, IF events = {} THEN IdleSweep
               ELSE [sw[p] EXCEPT !.pc = "zCard", !.eventIds = events])
    /\ UNCHANGED <<store, reqVars, batch, minted, admits, discarded>>

\* server.js 85-91: the event in hand (SMEMBERS returns the ids in no
\* particular order), ZCARD, `if (qSize === 0) continue`.
AdmitZCard(p, eventId) ==
    /\ sw[p].pc = "zCard"
    /\ eventId \in sw[p].eventIds
    /\ LET s == [sw[p] EXCEPT !.eventId = eventId, !.i = 0] IN
       Goes(p, IF ZCard(queue[eventId]) = 0 THEN LoopEvent(s)
               ELSE IF BatchContinues(0) THEN [s EXCEPT !.pc = "zPopMin"]
               ELSE LoopEvent(s))
    /\ UNCHANGED <<store, reqVars, batch, minted, admits, discarded>>

\* An empty reply that throws, ending the sweep in the `catch`.
AfterEmptyPopThrows(s) == IdleSweep

\* server.js 94-102: an empty reply gives `item = null`, `queueToken`
\* undefined and the `break` out of the inner loop.
AfterEmptyPop(s) == LoopEvent(s)

\* server.js 92-102: ZPOPMIN; no member ends the batch of this event.
AdmitZPopMin(p) ==
    /\ sw[p].pc = "zPopMin"
    /\ LET q == queue[sw[p].eventId] IN
       IF ZMin(q) = {}
       THEN /\ Goes(p, AfterEmptyPop(sw[p]))
            /\ UNCHANGED <<queue, batch>>
       ELSE \E item \in ZMin(q) :
            /\ queue' = [queue EXCEPT ![sw[p].eventId] = ZPopMinRest(q)]
            /\ Goes(p, [sw[p] EXCEPT !.pc = "getMeta",
                                     !.queueToken = item.value])
            /\ batch' = [batch EXCEPT ![p][sw[p].eventId].popped =
                                          @ \cup {item.value}]
    /\ UNCHANGED <<meta, state, events, admissionOf, admission,
                   reservation, reqVars, minted, admits, discarded>>

\* The value drawn last, drawn again.
RepeatedAdmissionToken == IF minted = << >> THEN 1 ELSE Len(minted)

\* server.js 114: "a_" + crypto.randomBytes(10): a value never drawn before.
RandomAdmissionToken == Len(minted) + 1

\* server.js 104-114: GET of the metadata; absent, the state key is deleted
\* next; present, userId is read and a fresh admissionToken is drawn.
AdmitGetMeta(p) ==
    /\ sw[p].pc = "getMeta"
    /\ IF ~Has(meta, sw[p].queueToken)
       THEN /\ Goes(p, [sw[p] EXCEPT !.pc = "delState"])
            /\ discarded' = discarded \cup {sw[p].queueToken}
            /\ UNCHANGED minted
       ELSE /\ Goes(p, [sw[p] EXCEPT !.pc = "setState",
                                     !.userId = meta[sw[p].queueToken].userId,
                                     !.admissionToken = RandomAdmissionToken])
            /\ minted' = Append(minted, sw[p].queueToken)
            /\ UNCHANGED discarded
    /\ UNCHANGED <<store, reqVars, batch, admits>>

\* server.js 107-108
AdmitDelState(p) ==
    /\ sw[p].pc = "delState"
    /\ state' = Del(state, sw[p].queueToken)
    /\ Goes(p, AfterDiscard(sw[p]))
    /\ UNCHANGED <<meta, queue, events, admissionOf, admission,
                   reservation, reqVars, batch, minted, admits, discarded>>

\* server.js 116
AdmitSetState(p) ==
    /\ sw[p].pc = "setState"
    /\ state' = Set(state, sw[p].queueToken, "ADMITTED")
    /\ Goes(p, [sw[p] EXCEPT !.pc = "setAdmission"])
    /\ batch' = [batch EXCEPT ![p][sw[p].eventId].admitted =
                                  @ \cup {sw[p].queueToken}]
    /\ admits' = [admits EXCEPT ![sw[p].queueToken] = @ + 1]
    /\ UNCHANGED <<meta, queue, events, admissionOf, admission,
                   reservation, reqVars, minted, discarded>>

\* server.js 117
AdmitSetAdmission(p) ==
    /\ sw[p].pc = "setAdmission"
    /\ admissionOf' = Set(admissionOf, sw[p].queueToken, sw[p].admissionToken)
    /\ Goes(p, [sw[p] EXCEPT !.pc = "setPayload"])
    /\ UNCHANGED <<meta, state, queue, events, admission, reservation,
                   reqVars, batch, minted, admits, discarded>>

\* A payload that leaves the user out.
PayloadWithoutUser(s) ==
    [queueToken |-> s.queueToken, userId |-> "", eventId |-> s.eventId]

\* server.js 121: {queueToken, userId, eventId} (admittedAt is read nowhere).
Payload(s) ==
    [queueToken |-> s.queueToken, userId |-> s.userId, eventId |-> s.eventId]

\* server.js 119-126
AdmitSetPayload(p) ==
    /\ sw[p].pc = "setPayload"
    /\ admission' = Set(admission, sw[p].admissionToken, Payload(sw[p]))
    /\ Goes(p, LoopToken(sw[p]))
    /\ UNCHANGED <<meta, state, queue, events, admissionOf, reservation,
                   reqVars, batch, minted, admits, discarded>>

\* server.js 81, 128-132: the Redis command awaited rejects (or, at line 111,
\* JSON.parse throws): the `catch` around the whole body logs the error and
\* the `finally` ends the execution.  The command has had no effect.
AdmitFault(p) ==
    /\ sw[p].pc # "idle"
    /\ sw' = [sw EXCEPT ![p] = IdleSweep]
    /\ running' = [running EXCEPT ![p] = ~Released(IdleSweep)]
    /\ active' = [active EXCEPT ![p] = @ - 1]
    /\ Disturb
    /\ scenario' = "failed"
    /\ rounds' = -1
    /\ UNCHANGED <<store, reqVars, batch, minted, admits, discarded>>

admitBatchOnce(p) ==
    \/ Tick(p)
    \/ AdmitSMembers(p)
    \/ \E e \in EventIds : AdmitZCard(p, e)
    \/ AdmitZPopMin(p)
    \/ AdmitGetMeta(p)
    \/ AdmitDelState(p)
    \/ AdmitSetState(p)
    \/ AdmitSetAdmission(p)
    \/ AdmitSetPayload(p)

\* ---------------------------------------------------------- specifications
\* Enter calls with inputs from `users` and `evts`, each reading the clock
\* `d \in elapsed` ms after the last reading; `overlap` tells whether a call
\* may start while another is in progress.
Enter(users, evts, elapsed, overlap) ==
    /\ \E t \in Tokens :
          \/ \E u \in users, e \in evts, d \in elapsed :
                 /\ overlap \/ NoEnterInFlight
                 /\ EnterStart(t, u, e, d)
          \/ EnterSteps(t)
    /\ EnterKeeps
    /\ UNCHANGED BATCH_SIZE

Status == StatusNext /\ UNCHANGED <<BATCH_SIZE, scenario, rounds>>

Redeem == RedeemNext /\ scenario' = "off" /\ rounds' = -1 /\ UNCHANGED BATCH_SIZE

Expire == (\E t \in Tokens : ExpireMeta(t)) /\ UNCHANGED BATCH_SIZE

Admit(p) == admitBatchOnce(p) /\ UNCHANGED BATCH_SIZE

\* One service instance, clients entering one after another into two events.
\* Status and reservation calls write no key an admitter or an enter call
\* reads.
Next ==
    \/ Enter({"u1"}, EventIds, {0, 1}, FALSE)
    \/ Admit(1)

Spec == Init /\ [][Next]_vars

\* Two service instances sharing the store.
NextTwo ==
    \/ Enter({"u1"}, {"E1"}, {1}, FALSE)
    \/ \E p \in Procs : Admit(p)

SpecTwo == Init /\ [][NextTwo]_vars

\* Metadata expiring under the admitter.
NextStale ==
    \/ Enter({"u1"}, {"E1"}, {1}, FALSE)
    \/ Expire
    \/ Admit(1)

SpecStale == Init /\ [][NextStale]_vars

\* Status calls between enter calls and the sweeps of the admitter.
NextStatus ==
    \/ Enter({"u1"}, {"E1"}, {0, 1}, FALSE)
    \/ Admit(1)
    \/ Status

SpecStatus == Init /\ [][NextStatus]_vars

\* Status calls on tokens whose metadata expires.
NextFound ==
    \/ Enter({"u1"}, {"E1"}, {1}, FALSE)
    \/ Expire
    \/ Admit(1)
    \/ Status

SpecFound == Init /\ [][NextFound]_vars

\* Reservation calls racing for the admission tokens the admitter minted.
NextRedeem ==
    \/ Enter({"u1"}, {"E1"}, {1}, FALSE)
    \/ Admit(1)
    \/ Redeem

SpecRedeem == Init /\ [][NextRedeem]_vars

\* Reservation calls on admission tokens that are consumed or expire.
Lapse ==
    /\ \E a \in DOMAIN minted : ExpireAdmission(a)
    /\ UNCHANGED BATCH_SIZE

NextInvalid ==
    \/ Enter({"u1"}, {"E1"}, {1}, FALSE)
    \/ Admit(1)
    \/ Redeem
    \/ Lapse

SpecInvalid == Init /\ [][NextInvalid]_vars

\* Status calls on tokens whose state key expires.
Forget ==
    /\ \E t \in Tokens : ExpireState(t)
    /\ UNCHANGED BATCH_SIZE

NextExpired ==
    \/ Enter({"u1"}, {"E1"}, {1}, FALSE)
    \/ Admit(1)
    \/ Status
    \/ Forget

SpecExpired == Init /\ [][NextExpired]_vars

\* Redis commands of the admitter failing.
Fault(p) == AdmitFault(p) /\ UNCHANGED BATCH_SIZE

NextFault ==
    \/ Enter({"u1"}, EventIds, {1}, FALSE)
    \/ Admit(1)
    \/ Fault(1)

SpecFault == Init /\ [][NextFault]_vars

\* The same for one event, where the timer keeps firing (setInterval,
\* server.js 148) and every command the admitter awaits is answered or
\* rejected in the end.
NextRelease ==
    \/ Enter({"u1"}, {"E1"}, {1}, FALSE)
    \/ Admit(1)
    \/ Fault(1)

SpecRelease == Init /\ [][NextRelease]_vars /\ WF_vars(Admit(1))

\* Enter calls whose body may lack userId or eventId.
EnterAny ==
    /\ \E t \in Tokens :
          \/ \E u \in {"u1", Absent}, e \in {"E1", Absent} :
                 /\ NoEnterInFlight
                 /\ EnterCall(t, u, e, 1)
          \/ EnterSteps(t)
    /\ EnterKeeps
    /\ UNCHANGED BATCH_SIZE

NextMissing ==
    \/ EnterAny
    \/ Admit(1)

SpecMissing == Init /\ [][NextMissing]_vars

\* One reservation call at a time, for tokens of two users and two events.
Handoff ==
    /\ \/ \E a \in 1..(Len(minted) + 1) : RedeemGet(1, a)
       \/ RedeemSetReservation(1)
       \/ RedeemDel(1)
    /\ scenario' = "off"
    /\ rounds' = -1
    /\ UNCHANGED BATCH_SIZE

NextHandoff ==
    \/ Enter(UserIds, EventIds, {1}, FALSE)
    \/ Admit(1)
    \/ Handoff

SpecHandoff == Init /\ [][NextHandoff]_vars

\* The admitter alone, on tokens of two users and two events.
NextBinding ==
    \/ Enter(UserIds, EventIds, {1}, FALSE)
    \/ Admit(1)

SpecBinding == Init /\ [][NextBinding]_vars

\* The three request handlers beside the admitter.
NextRoles ==
    \/ Enter({"u1"}, {"E1"}, {1}, FALSE)
    \/ Admit(1)
    \/ Status
    \/ Handoff

SpecRoles == Init /\ [][NextRoles]_vars

\* An enter call in progress goes on: the command it awaits is answered.
Proceed ==
    /\ \E t \in Tokens : EnterSteps(t)
    /\ EnterKeeps
    /\ UNCHANGED BATCH_SIZE

\* Spec with the timer firing for ever (setInterval, server.js 148) and every
\* command that the admitter or an enter call awaits answered in the end; no
\* command fails and no key expires.
SpecEventual ==
    Init /\ [][Next]_vars /\ WF_vars(Admit(1)) /\ WF_vars(Proceed)

\* The estimate of GET /queue/status as a function of its inputs, for every
\* batch size up to MaxEtaBatch and every position up to MaxEtaPosition.
Estimate ==
    /\ \E position \in {{}} \cup {{pos} : pos \in 1..MaxEtaPosition},
          status \in {"WAITING", "ADMITTED"} :
            StatusEstimate(position, status)
    /\ UNCHANGED <<BATCH_SIZE, scenario, rounds>>

InitEta ==
    /\ BATCH_SIZE \in 1..MaxEtaBatch
    /\ Start

NextEta == Estimate

SpecEta == InitEta /\ [][NextEta]_vars

\* ------------------------------------------------------------------ claims
Range(f) == {f[x] : x \in DOMAIN f}
Ledger(e) == {m.value : m \in queue[e]}
Admitted(t) == admits[t] > 0
MintsFor(t) == {a \in DOMAIN minted : minted[a] = t}
SessionsOf(a) == {r \in DOMAIN reservation : reservation[r].admissionToken = a}
\* What GET /queue/status reads for a token when nothing runs beside it.
StateOf(t) == IF Has(state, t) THEN state[t] ELSE "WAITING"
PositionOf(t) == {r + 1 : r \in ZRank(queue[en[t].eventId], t)}

\* C1: for two tokens of one event, a's enter call having responded before
\* b's started, the admitter never sets b to ADMITTED while a has not been
\* set to ADMITTED.
C1_FifoWithinEvent ==
    \A a, b \in Tokens :
        (a \in en[b].before /\ en[a].eventId = en[b].eventId /\ Admitted(b))
            => Admitted(a)

\* C2: for every admission token at most one reservation session is ever
\* stored and at most one reservation call is answered 200.
C2_SingleUseRedemption ==
    \A a \in DOMAIN minted :
        /\ Cardinality(SessionsOf(a)) <= 1
        /\ Cardinality({r \in Redeemers : rd[r].pc = "200"
                                          /\ rd[r].admissionToken = a}) <= 1

\* C3: with the admitters of two service instances sweeping the same store,
\* every queue token is set to ADMITTED at most once and has at most one
\* admission token minted for it.
C3_AtMostOnceAdmission ==
    \A t \in Tokens : admits[t] <= 1 /\ Cardinality(MintsFor(t)) <= 1

\* Two instances in the middle of an admission at once, each of its own token.
C3_Witness ==
    /\ sw[1].pc = "setAdmission" /\ sw[2].pc = "setAdmission"
    /\ admits[sw[1].queueToken] = 1 /\ admits[sw[2].queueToken] = 1

\* C4: within one instance at most one execution of the sweep body is in
\* progress, the flag is set exactly while it is, and a tick that finds the
\* flag set changes nothing (it pops nothing and leaves nothing to run later).
C4_SingleRunInvariant ==
    \A p \in Procs :
        /\ active[p] <= 1
        /\ running[p] <=> (active[p] = 1)
        /\ running[p] <=> (sw[p].pc # "idle")

C4_SingleRun ==
    /\ []C4_SingleRunInvariant
    /\ [][\A p \in Procs : (running[p] /\ Tick(p)) => UNCHANGED vars]_vars

\* A sweep with a popped token in hand: a tick firing now finds the flag set.
C4_Witness ==
    /\ running[1] /\ sw[1].pc = "getMeta" /\ sw[1].queueToken \in Tokens
    /\ \E t \in Tokens : en[t].pc = "done" /\ t \in Ledger(en[t].eventId)

\* C5: in one sweep, for each event, at most BATCH_SIZE tokens are removed
\* from the ledger and at most BATCH_SIZE tokens are set to ADMITTED.
C5_BatchBound ==
    \A p \in Procs, e \in EventIds :
        /\ Cardinality(batch[p][e].popped) <= BATCH_SIZE
        /\ Cardinality(batch[p][e].admitted) <= BATCH_SIZE

\* A sweep that ended having admitted BATCH_SIZE tokens of an event whose
\* ledger still holds a token entered before the sweep.
C5_Witness ==
    /\ scenario = "swept"
    /\ \E e \in EventIds :
        /\ Cardinality(batch[1][e].admitted) = BATCH_SIZE
        /\ Ledger(e) # {}

\* C6: n tokens having been entered for one event, one after another, and one
\* sweep having then run to its end with nothing else happening, the
\* min(n, BATCH_SIZE) tokens entered first are ADMITTED and the others are
\* WAITING at positions 1, 2, ... in the order they were entered.
EnteredBefore(t) ==
    Cardinality({a \in en[t].before : en[a].eventId = en[t].eventId})

C6_BatchedPromotion ==
    scenario = "swept" =>
        \A t \in Tokens : en[t].pc = "done" =>
            IF EnteredBefore(t) < BATCH_SIZE
            THEN StateOf(t) = "ADMITTED"
            ELSE /\ StateOf(t) = "WAITING"
                 /\ PositionOf(t) = {EnteredBefore(t) - BATCH_SIZE + 1}

\* C7: a token popped while its metadata is absent is never set to ADMITTED
\* and never gets an admission token; the admitter deletes its state key and
\* goes on to the next pop of the batch.
C7_StaleInvariant ==
    \A t \in discarded :
        /\ admits[t] = 0
        /\ MintsFor(t) = {}
        /\ StateOf(t) # "ADMITTED"
        /\ ~Has(admissionOf, t)

C7_StaleDiscard ==
    /\ []C7_StaleInvariant
    /\ [][\A p \in Procs :
            (sw[p].pc = "delState" /\ sw'[p] # sw[p]) =>
                /\ ~Has(state', sw[p].queueToken)
                /\ IF sw[p].i + 1 < BATCH_SIZE
                   THEN sw'[p].pc = "zPopMin" /\ sw'[p].i = sw[p].i + 1
                        /\ sw'[p].eventId = sw[p].eventId
                   ELSE sw'[p].pc \in {"zCard", "idle"}]_vars

\* A second token of the batch being admitted after the first was discarded.
C7_Witness ==
    /\ sw[1].pc = "setAdmission" /\ sw[1].i = 1
    /\ discarded \cap batch[1][sw[1].eventId].popped # {}
    /\ sw[1].queueToken \in batch[1][sw[1].eventId].admitted

\* C8: a status call that finds no metadata for its token answers 404
\* token_not_found and nothing else, be the token one that was never issued
\* or one whose metadata expired, whatever other keys remain for it.
C8_ExpiredIsNotFound ==
    [][\A t \in Tokens :
          (StatusGetMeta(t) /\ ~Has(meta, t))
              => last'[t] = [NoResponse EXCEPT !.code = 404]]_vars

\* The 404 for an admitted token whose metadata expired while its state and
\* admission keys remain, beside the 404 for a token never issued.
C8_Witness ==
    \E t, u \in Tokens :
        /\ en[t].pc = "done" /\ ~Has(meta, t)
        /\ StateOf(t) = "ADMITTED" /\ Has(admissionOf, t)
        /\ en[u].pc = "idle"
        /\ last[t].code = 404 /\ last[u] = last[t]

\* C9: of two consecutive status responses for a token with no step of a
\* sweep between them, the second has the status and the position of the
\* first.
C9_StatusIdempotent ==
    [][\A t \in Tokens :
          (last[t].code = 200 /\ last'[t].code = 200)
              => /\ last'[t].status = last[t].status
                 /\ last'[t].position = last[t].position]_vars

\* C10: before any sweep, an enter call into an event whose ledger is empty
\* answers position 1, and a status call for its token answers WAITING,
\* position 1, estimatedWaitSec 0.
C10_FirstEntrant ==
    scenario = "enter" =>
        \A t \in Tokens : en[t].first =>
            /\ en[t].pc = "done" => en[t].position = {1}
            /\ last[t].code = 200 =>
                   /\ last[t].status = "WAITING"
                   /\ last[t].position = {1}
                   /\ last[t].estimatedWaitSec = {0}

\* The ceiling of a / b in exact arithmetic.
CeilDiv(a, b) == (a + b - 1) \div b

\* C11: an estimate for a WAITING token at position p is
\* ceil(max(p - 1, 0) / (BATCH_SIZE / BATCH_INTERVAL_SEC)), that is the exact
\* ceiling of max(p - 1, 0) * BATCH_INTERVAL_SEC / BATCH_SIZE; it is null
\* when the position is null or the status is not WAITING.
C11_EtaComputation ==
    st.estimatedWaitSec =
        IF st.status = "WAITING"
        THEN {CeilDiv(Max(p - 1, 0) * BATCH_INTERVAL_SEC, BATCH_SIZE) :
                  p \in st.position}
        ELSE {}

\* C12: for one batch size and interval, of two estimates for WAITING tokens
\* the one for the lower position is not the greater.
C12_EtaMonotone ==
    [][(st.status = "WAITING" /\ st'.status = "WAITING") =>
          /\ (st.position # {} => st.estimatedWaitSec # {})
          /\ \A p \in st.position, q \in st'.position :
                \A e \in st.estimatedWaitSec, f \in st'.estimatedWaitSec :
                    p <= q => e <= f]_vars

C12_Witness ==
    /\ st.status = "WAITING"
    /\ st.position = {MaxEtaPosition}
    /\ \E e \in st.estimatedWaitSec : e > BATCH_INTERVAL_SEC

\* C13: a reservation call that answers 200 for the admission token minted
\* for queue token T answers expiresInSec = RESERVATION_TTL_SEC and the userId
\* and eventId of the enter call that issued T, and the session stored under
\* its reservationId holds T, that userId and that eventId.
C13_HandoffPayload ==
    \A r \in Redeemers :
        rd[r].pc = "200" =>
            /\ rd[r].admissionToken \in DOMAIN minted
            /\ LET T == minted[rd[r].admissionToken] IN
               /\ rd[r].expiresInSec = RESERVATION_TTL_SEC
               /\ rd[r].userId = en[T].userId
               /\ rd[r].eventId = en[T].eventId
               /\ Has(reservation, rd[r].reservationId)
               /\ reservation[rd[r].reservationId] =
                      [admissionToken |-> rd[r].admissionToken,
                       queueToken |-> T,
                       userId |-> en[T].userId,
                       eventId |-> en[T].eventId]

C13_Witness ==
    /\ rd[1].pc = "200"
    /\ rd[1].userId = "u2"
    /\ rd[1].eventId = "E2"
    /\ \E t \in Tokens : en[t].pc = "done" /\ en[t].userId = "u1"
                                            /\ en[t].eventId = "E1"

\* A reservation call has answered 200 for admission token a.
Consumed(a) ==
    \E i \in DOMAIN sessions :
        /\ sessions[i] = a
        /\ \A r \in Redeemers :
               rd[r].reservationId = i => rd[r].pc \notin {"setReservation", "del"}

\* C14: a reservation call for an admission token that was never minted, or
\* for which a call has answered 200, or whose payload key has expired,
\* answers 401 and writes no key: ledger, states, admission records and
\* reservation sessions stay as they are.
C14_InvalidToken ==
    [][\A r \in Redeemers, a \in 1..(Len(minted) + 1) :
          (/\ RedeemGet(r, a)
           /\ a \notin DOMAIN minted \/ Consumed(a) \/ a \in lapsed)
          => /\ rd'[r] = [IdleRedeem EXCEPT !.pc = "401", !.admissionToken = a]
             /\ UNCHANGED store]_vars

C14_Witness ==
    /\ rd[1].pc = "401"
    /\ Consumed(rd[1].admissionToken)
    /\ rd[2].pc = "401"
    /\ rd[2].admissionToken \in lapsed
    /\ ~Consumed(rd[2].admissionToken)
    /\ reservation # Empty

\* C15: an enter call without userId or without eventId answers 400 naming
\* the missing field and writes nothing: metadata, states, ledgers and the
\* set of events stay as they are and no token is issued; so no record of the
\* store ever lacks a userId or an eventId.
C15_MissingFieldStep ==
    \A t \in Tokens, u \in {"u1", Absent}, e \in {"E1", Absent} :
        (EnterCall(t, u, e, 1) /\ (u = Absent \/ e = Absent))
        => /\ rejected'.code = 400
           /\ rejected'.error \in {"userId is required", "eventId is required"}
           /\ UNCHANGED <<store, en>>

C15_MissingField ==
    /\ [][C15_MissingFieldStep]_vars
    /\ [](\A t \in DOMAIN meta :
              meta[t].userId # Absent /\ meta[t].eventId # Absent)

C15_Witness ==
    /\ rejected = [code |-> 400, error |-> "eventId is required"]
    /\ \E t \in Tokens : en[t].pc = "done" /\ Has(meta, t)
    /\ events # {}

\* C16: once a reservation call has answered 200 for the admission token
\* minted for queue token T, the state of T is CONSUMED, a status call for T
\* does not find ADMITTED with an admission token, and the admission payload
\* is deleted.
C16_ConsumptionRecorded ==
    \A r \in Redeemers :
        (rd[r].pc = "200" /\ rd[r].admissionToken \in DOMAIN minted) =>
            LET T == minted[rd[r].admissionToken] IN
            /\ Has(state, T) /\ state[T] = "CONSUMED"
            /\ ~(StateOf(T) = "ADMITTED" /\ Has(admissionOf, T))
            /\ ~Has(admission, rd[r].admissionToken)

\* C17: a status call for a token whose enter call has responded, finding
\* no state key for it, takes the status for EXPIRED, not for WAITING or
\* ADMITTED.
C17_AbsentIsExpired ==
    [][(/\ StatusGetState
        /\ en[st.token].pc = "done"
        /\ ~Has(state, st.token)) => st'.status = "EXPIRED"]_vars

\* C18: when a command fails while the admitter works on a popped token and
\* the batch has room for a token still in the ledger, or events are left,
\* the sweep goes on as after a `continue`: with the next token of the
\* batch, then with the events left.
C18_FaultIsolation ==
    [][\A p \in Procs :
          (/\ AdmitFault(p)
           /\ sw[p].pc \in {"getMeta", "delState", "setState", "setAdmission",
                             "setPayload"}
           /\ \/ BatchContinues(sw[p].i + 1) /\ Ledger(sw[p].eventId) # {}
              \/ sw[p].eventIds \ {sw[p].eventId} # {})
          => sw'[p] = LoopToken(sw[p])]_vars

\* C19: the flag is false whenever no execution of the sweep body is in
\* progress, however the last one ended (end of the loops, no events, a
\* failed command); a tick that finds it false starts a sweep; and after
\* every start of a sweep the flag is false again in the end.
C19_LockRelease ==
    /\ [](\A p \in Procs : sw[p].pc = "idle" => ~running[p])
    /\ [][(Tick(1) /\ sw[1].pc = "idle") => running'[1]]_vars
    /\ (running[1] ~> ~running[1])

C19_Witness ==
    /\ scenario = "failed"
    /\ ~running[1]
    /\ sw[1].pc = "idle"
    /\ \E e \in EventIds : Ledger(e) # {} /\ batch[1][e].popped # {}

\* C20: the ordering key an enter call assigns (the score of its ZADD) is
\* greater than the key of every call for the same event that had responded
\* before it started, so no two tokens of an event share a key.
C20_JoinKeysIncrease ==
    \A a, b \in Tokens :
        (/\ en[b].pc # "idle"
         /\ a \in en[b].before
         /\ en[a].eventId = en[b].eventId) => en[a].now < en[b].now

\* C21: every admission payload stored is that of the one queue token its
\* admission token was minted for, with the userId of that token's metadata
\* and the eventId of the ledger the token was popped from; the admission
\* token published for a queue token is one minted for it, and two queue
\* tokens never have the same admission token.
C21_ExchangeBinding ==
    /\ \A a \in DOMAIN admission :
          /\ a \in DOMAIN minted
          /\ admission[a] = [queueToken |-> minted[a],
                             userId |-> en[minted[a]].userId,
                             eventId |-> en[minted[a]].eventId]
          /\ Has(meta, minted[a]) => admission[a].userId = meta[minted[a]].userId
    /\ \A t \in DOMAIN admissionOf :
          /\ admissionOf[t] \in MintsFor(t)
          /\ \A u \in DOMAIN admissionOf : admissionOf[u] = admissionOf[t] => u = t
    /\ \A p \in Procs :
          sw[p].pc \in {"setState", "setAdmission", "setPayload"} =>
              /\ sw[p].queueToken \in batch[p][sw[p].eventId].popped
              /\ sw[p].eventId = en[sw[p].queueToken].eventId

\* Two payloads stored, for tokens of different users and events.
C21_Witness ==
    \E a, b \in DOMAIN admission :
        /\ admission[a].queueToken # admission[b].queueToken
        /\ admission[a].userId # admission[b].userId
        /\ admission[a].eventId # admission[b].eventId
        /\ Has(admissionOf, admission[a].queueToken)
        /\ Has(admissionOf, admission[b].queueToken)

\* A step of one of the three request handlers.
HandlerStep ==
    \/ \E t \in Tokens :
          \/ \E u \in UserIds, e \in EventIds, d \in {0, 1} : EnterStart(t, u, e, d)
          \/ EnterSteps(t)
    \/ StatusNext
    \/ RedeemNext

\* C22: a step of enter, status or reservation/start sets no state key to
\* ADMITTED, removes no member from a ledger, and stores no admission payload
\* and no queue:admission key; a step of status changes no key at all; and a
\* state key goes from WAITING to ADMITTED only by line 116 of the admitter.
C22_RoleRestrictedWrites ==
    /\ [][HandlerStep =>
            /\ \A t \in DOMAIN state' :
                  state'[t] = "ADMITTED" => (Has(state, t) /\ state[t] = "ADMITTED")
            /\ \A e \in EventIds : Ledger(e) \subseteq {m.value : m \in queue'[e]}
            /\ \A a \in DOMAIN admission' :
                  Has(admission, a) /\ admission'[a] = admission[a]
            /\ admissionOf' = admissionOf]_vars
    /\ [][StatusNext => UNCHANGED store]_vars
    /\ [][\A t \in Tokens :
            (StateOf(t) = "WAITING" /\ Has(state', t) /\ state'[t] = "ADMITTED")
                => \E p \in Procs : AdmitSetState(p) /\ sw[p].queueToken = t]_vars

\* All three handlers have acted around an admission: an ADMITTED status
\* answered, its admission token redeemed, a later token waiting in the ledger.
C22_Witness ==
    \E t, u \in Tokens :
        /\ last[t].code = 200 /\ last[t].status = "ADMITTED"
        /\ rd[1].pc = "200" /\ {rd[1].admissionToken} = last[t].admissionToken
        /\ en[u].pc = "done" /\ u \in Ledger("E1") /\ StateOf(u) = "WAITING"

\* The tokens entered for event e.
EnteredFor(e) == {t \in Tokens : en[t].pc = "done" /\ en[t].eventId = e}
Min(a, b) == IF a <= b THEN a ELSE b

C24_AdmittedLeavesLedger ==
    /\ \A t \in DOMAIN state :
          state[t] = "ADMITTED" => \A e \in EventIds : t \notin Ledger(e)
    /\ st.pc = "getAdmission" => st.status = "ADMITTED" /\ st.position = {}
    /\ \A t \in Tokens :
          (last[t].code = 200 /\ last[t].status = "ADMITTED")
              => last[t].position = {}

\* An ADMITTED status answered for one token while another waits in the
\* ledger of the same event.
C24_Witness ==
    \E t, u \in Tokens :
        /\ last[t].code = 200 /\ last[t].status = "ADMITTED"
        /\ Has(state, t) /\ state[t] = "ADMITTED"
        /\ en[u].eventId = en[t].eventId /\ u \in Ledger(en[u].eventId)
        /\ StateOf(u) = "WAITING"

\* The sweep of instance p has left the event in hand for the events left,
\* or has ended when none is left.
LeavesEvent(p, eventId) ==
    IF sw[p].eventIds \ {eventId} = {}
    THEN sw'[p].pc = "idle" /\ ~running'[p]
    ELSE /\ sw'[p].pc = "zCard" /\ running'[p]
         /\ sw'[p].eventIds = sw[p].eventIds \ {eventId}

\* C25: the admitter finding the ledger of an event empty (ZCARD 0) sends no
\* pop for it, and a pop that returns no member ends the batch of its event;
\* either way the sweep goes on with the events left, no error is caught, and
\* ledgers, states, metadata and admission records stay as they are.
C25_EmptyQueueNoOp ==
    [][\A p \in Procs :
          /\ \A e \in EventIds :
                (AdmitZCard(p, e) /\ queue[e] = {}) =>
                    /\ LeavesEvent(p, e)
                    /\ UNCHANGED <<store, batch, minted, admits, discarded>>
                    /\ scenario' # "failed"
          /\ (AdmitZPopMin(p) /\ queue[sw[p].eventId] = {}) =>
                    /\ LeavesEvent(p, sw[p].eventId)
                    /\ UNCHANGED <<store, batch, minted, admits, discarded>>
                    /\ scenario' # "failed"]_vars

\* A sweep has ended that found the ledger of one event empty and, with
\* BATCH_SIZE 2, popped the one token of the other, the second pop empty.
C25_Witness ==
    /\ sw[1].pc = "idle" /\ BATCH_SIZE = 2 /\ events = EventIds
    /\ \E e, f \in EventIds :
          /\ Ledger(e) = {} /\ batch[1][e].popped = {}
          /\ Ledger(f) = {} /\ Cardinality(batch[1][f].popped) = 1

\* C26: the event of every enter call that has responded is a member of
\* queue:events, which the admitter reads at the start of each sweep, and no
\* step of any operation takes a member out of it.
C26_EventsMonotonic ==
    /\ [](\A t \in Tokens : en[t].pc = "done" => en[t].eventId \in events)
    /\ [][events \subseteq events']_vars
    /\ [][\A p \in Procs :
            AdmitSMembers(p) =>
                \A t \in Tokens : en[t].pc = "done" =>
                    (sw'[p].pc = "zCard" /\ en[t].eventId \in sw'[p].eventIds)]_vars

\* Both events are members while both ledgers are empty after a sweep.
C26_Witness ==
    /\ events = EventIds
    /\ \A e \in EventIds : Ledger(e) = {}
    /\ sw[1].pc = "zCard" /\ sw[1].eventIds = EventIds
    /\ \A t \in Tokens : admits[t] = 1

\* C27: a status call for a token that an earlier status response has shown
\* ADMITTED, its metadata still there, does not answer WAITING.
C27_StatusNeverRegresses ==
    [][(/\ StatusZRank
        /\ st.token \in shown
        /\ Has(meta, st.token)) => st.status # "WAITING"]_vars

\* C28: when a status call answers with an admission token, the payload of
\* that admission token is stored, unless a reservation call has consumed it
\* or it has expired; and a reservation call made for an admission token
\* that the last status response has published, not consumed and not
\* expired, finds the payload and is not answered 401.
C28_PublishedIsRedeemable ==
    /\ [][(StatusGetAdmission /\ Has(admissionOf, st.token)) =>
            \/ Has(admission, admissionOf[st.token])
            \/ Consumed(admissionOf[st.token])
            \/ admissionOf[st.token] \in lapsed]_vars
    /\ [][\A r \in Redeemers, a \in DOMAIN minted :
            (/\ RedeemGet(r, a)
             /\ \E t \in Tokens : last[t].admissionToken = {a}
             /\ ~Consumed(a)
             /\ a \notin lapsed) => rd'[r].pc = "setReservation"]_vars

\* C29: a status call for a token whose enter call has responded, answering
\* WAITING, answers with a position and an estimatedWaitSec that are not
\* null.
C29_WaitingHasPosition ==
    [][(/\ StatusZRank
        /\ en[st.token].pc = "done"
        /\ st.status = "WAITING") =>
            /\ ZRank(queue[st.eventId], st.token) # {}
            /\ EstimatedWaitSec({r + 1 : r \in ZRank(queue[st.eventId], st.token)},
                                st.status) # {}]_vars

\* C30: an enter call inserts its token into the ledger with the metadata
\* and the WAITING state already written, so every member of a ledger has
\* metadata, the admitter discards no token as stale while no key expires,
\* and the WAITING write of an enter call never replaces an ADMITTED.
C30_EnterPublishesLast ==
    /\ [][\A t \in Tokens :
            /\ EnterZAdd(t) => (Has(meta, t) /\ Has(state, t)
                                 /\ state[t] = "WAITING")
            /\ EnterSetState(t) => (~Has(state, t) /\ admits[t] = 0)]_vars
    /\ [](\A e \in EventIds : \A t \in Ledger(e) : Has(meta, t))
    /\ [](discarded = {})

\* A token popped and admitted while its enter call has not yet responded.
C30_Witness ==
    \E t \in Tokens :
        /\ en[t].pc = "sAdd"
        /\ Has(state, t) /\ state[t] = "ADMITTED"
        /\ Has(admissionOf, t)

\* C31: with the timer firing for ever, no command failing and no metadata
\* expiring, every token in a ledger is set to ADMITTED in the end; and a
\* token whose enter call answered position p is ADMITTED once
\* ceil(p / BATCH_SIZE) sweeps, started after that answer, have run to their
\* end.
C31_AdmittedWithin ==
    rounds >= 0 =>
        \A t \in Tokens : \A p \in en[t].position :
            (en[t].pc = "done" /\ rounds >= CeilDiv(p, BATCH_SIZE))
                => Admitted(t)

C31_EventualAdmission ==
    /\ \A t \in Tokens :
          (\E e \in EventIds : t \in Ledger(e)) ~> Admitted(t)
    /\ []C31_AdmittedWithin

====
